---------------------------- MODULE Spec2Model ----------------------------
(***************************************************************************)
(* A model of the automation scripts of aws-devops-open-scripts:           *)
(*   - bitjira.py: parse_result (the report aggregator) and main (the      *)
(*     fan-out/fan-in of the three fetches);                               *)
(*   - terminate_ebs_lambda.py: rebuild_ebs.                               *)
(*                                                                         *)
(* Strings are sequences of tokens.  The tokens are cut so that none of    *)
(* the strings the code searches for (an issue identifier, "migra", "/")   *)
(* straddles a token boundary or lies inside a token, so a search over     *)
(* tokens finds what the same search over characters finds.                *)
(*                                                                         *)
(* A Python dict read from JSON is a TLA+ record whose DOMAIN holds the    *)
(* keys that are present: reading an absent key raises KeyError.  The      *)
(* nested paths of the upstream records (pr["source"]["branch"]["name"],   *)
(* jira["fields"]["status"]["name"], ...) are flattened to one field.      *)
(*                                                                         *)
(* An insertion-ordered Python dict is a sequence of [k, v] entries.       *)
(***************************************************************************)
EXTENDS Integers, Sequences, FiniteSets, TLC

\* ------------------------------------------------------------------ bounds

MaxIssues == 2
MaxPRs == 2
MaxPipes == 1
MaxBuild == 3
MaxPipeRuns == 3

\* ----------------------------------------------------------------- strings

ABC1 == <<"ABC-1">>
ABC10 == <<"ABC-1", "0">>
XYZ9 == <<"XYZ-9">>

\* "migra" in p["branch"]
MIGRA == <<"migra">>

\* branch.split("/")
SEP == "/"

bFeature == <<"feature", "/", "ABC-1">>
bHotfix == <<"hotfix", "/", "ABC-1">>
bFix == <<"feature", "/", "ABC-1", "-fix">>
bFeatMigra == <<"feature", "/", "migra", "-", "ABC-1">>
bMigra == <<"migra", "/", "ABC-1">>
bOther == <<"feature", "/", "XYZ-9">>
bTen == <<"feature", "/", "ABC-1", "0">>

JIRA_API_HOST == "https://jira"
PIPELINE_BASE_URL == "https://bitbucket/pipelines/results"

\* Python's `t in s` on strings, and re.search of a literal.
Contains(s, t) ==
    \E i \in 0..(Len(s) - Len(t)) : SubSeq(s, i + 1, i + Len(t)) = t

\* branch.split("/")[0]: what precedes the first "/".
SplitLastFirst(branch) ==
    LET seps == {i \in 1..Len(branch) : branch[i] = SEP}
    IN  IF seps = {} THEN branch
        ELSE SubSeq(branch, 1, (CHOOSE i \in seps : \A j \in seps : i <= j) - 1)

\* branch.split("/")[-1]: what follows the last "/", the whole string when
\* there is none.
SplitLast(branch) ==
    LET seps == {i \in 1..Len(branch) : branch[i] = SEP}
    IN  IF seps = {} THEN branch
        ELSE SubSeq(branch, (CHOOSE i \in seps : \A j \in seps : j <= i) + 1,
                    Len(branch))

\* ------------------------------------------------------------------- dicts

EmptyDict == <<>>

DictKeys(d) == [i \in 1..Len(d) |-> d[i].k]

DictHas(d, key) == \E i \in 1..Len(d) : d[i].k = key

DictIndex(d, key) == CHOOSE i \in 1..Len(d) : d[i].k = key

DictGet(d, key) == d[DictIndex(d, key)].v

\* d[key] = value with the new keys put first: a mapping that does not keep
\* the insertion order.
DictSetFront(d, key, value) ==
    IF DictHas(d, key)
    THEN [d EXCEPT ![DictIndex(d, key)] = [k |-> key, v |-> value]]
    ELSE <<[k |-> key, v |-> value]>> \o d

\* d[key] = value: an existing key keeps its place, a new key goes last.
DictSet(d, key, value) ==
    IF DictHas(d, key)
    THEN [d EXCEPT ![DictIndex(d, key)] = [k |-> key, v |-> value]]
    ELSE Append(d, [k |-> key, v |-> value])

\* list(d.values())
DictValues(d) == [i \in 1..Len(d) |-> d[i].v]

\* compiled_regex.search(branch) for re.compile("|".join(keys)): an
\* alternation of literals finds a match when one of them occurs in the
\* branch; the join of no keys is the empty pattern, which matches anywhere.
RegexSearch(keys, branch) ==
    IF keys = <<>> THEN TRUE
    ELSE \E i \in 1..Len(keys) : Contains(branch, keys[i])


\* --------------------------------------------------- parse_result: state

VARIABLES
    issues,         \* jira_response
    prs,            \* pullrequests_response
    pipes,          \* pipelines_response
    pc,             \* where the running parse_result call stands
    results,        \* results: issue identifier -> draft result
    pullrequests,   \* what parse_pullrequests returned
    pipelines,      \* what parse_pipelines returned
    failed,         \* a task of the inner gather has raised
    out,            \* the value the call returned
    run,            \* the number of the running call on these inputs
    first           \* how the first call ended: [pc, out]

aggVars == <<issues, prs, pipes, pc, results, pullrequests, pipelines,
             failed, out, run, first>>

\* bitjira.main
VARIABLES
    mainPc,         \* where main stands
    fetchPc,        \* where each of the three fetches stands
    fetchRes,       \* what each fetch handed to the gather
    args            \* the three arguments parse_result was called with

mainVars == <<mainPc, fetchPc, fetchRes, args>>

\* terminate_ebs_lambda.rebuild_ebs
VARIABLES
    envs,           \* eb_envs["Environments"], as describe_environments answers
    rbPc,           \* where rebuild_ebs stands
    todo,           \* what the loop of lines 179-193 has still to visit
    rebuilt,        \* rebuilt_environments
    calls,          \* the environments rebuild_environment was called on
    mail            \* the names send_raw_email was called with

rebVars == <<envs, rbPc, todo, rebuilt, calls, mail>>

\* terminate_ebs_lambda.lambda_handler and terminate_ebs
VARIABLES
    event,          \* the event lambda_handler was invoked with
    eb_envs,        \* what describe_environments answers
    tePc,           \* where lambda_handler / terminate_ebs stands
    teTodo,         \* what the loop of lines 101-110 has still to visit
    terminated_environments,
    teCalls,        \* the environments terminate_environment was called on
    teMail          \* the names send_raw_email was called with

termVars == <<event, eb_envs, tePc, teTodo, terminated_environments,
              teCalls, teMail>>

\* describe_variables: redis, and a Handler with the call it is running
VARIABLES
    store,          \* redis: key -> what was set, and when the key expires
    now,            \* seconds since the beginning
    handler,        \* the Handler of the running process, or NoHandler
    callPc,         \* where get_environment_variables stands
    callKey,        \* f"{env_name}__{app_name}" of the running call
    env_vars,       \* env_vars of the running call
    apiCalled,      \* the call has run describe_configuration_settings
    cacheRead,      \* the call has run getkey
    hit,            \* history: the key was alive at getkey, and what it was given
    given           \* history: key -> the value last handed to setkey

cacheVars == <<store, now, handler, callPc, callKey, env_vars, apiCalled,
               cacheRead, hit, given>>

IssueFields == {"key", "status", "issuetype", "summary", "reporter", "assignee"}

\* The draft result of one issue.
NewResult(jira) ==
    [id |-> jira.key,
     status |-> jira.status,
     type |-> jira.issuetype,
     title |-> jira.summary,
     reporter |-> jira.reporter,
     assignee |-> jira.assignee,
     jira_url |-> <<JIRA_API_HOST, "browse", jira.key>>,
     pullrequests |-> <<>>,
     pipelines |-> <<>>]

\* for jira in jira_response: results[jira_id] = {...}; a missing field
\* raises KeyError.
RECURSIVE BuildLoop(_, _, _)
BuildLoop(jiras, i, acc) ==
    IF i > Len(jiras) THEN [err |-> FALSE, val |-> acc]
    ELSE IF ~(IssueFields \subseteq DOMAIN jiras[i]) THEN [err |-> TRUE, val |-> acc]
    ELSE BuildLoop(jiras, i + 1, DictSet(acc, jiras[i].key, NewResult(jiras[i])))

\* d.get(key) or []
GetList(d, key) == IF DictHas(d, key) THEN DictGet(d, key) ELSE <<>>

\* The loop of parse_pullrequests: the branch is read first, the url only
\* for a branch the pattern matches.
RECURSIVE PullrequestsLoop(_, _, _, _)
PullrequestsLoop(raw, keys, i, acc) ==
    IF i > Len(raw) THEN [err |-> FALSE, val |-> acc]
    ELSE IF "branch" \notin DOMAIN raw[i] THEN [err |-> TRUE, val |-> acc]
    ELSE IF ~RegexSearch(keys, raw[i].branch)
         THEN PullrequestsLoop(raw, keys, i + 1, acc)
    ELSE IF "url" \notin DOMAIN raw[i] THEN [err |-> TRUE, val |-> acc]
    ELSE LET key == SplitLast(raw[i].branch)
         IN  PullrequestsLoop(raw, keys, i + 1,
                 DictSet(acc, key,
                     Append(GetList(acc, key),
                            [url |-> raw[i].url, branch |-> raw[i].branch])))

\* The loop of parse_pipelines that reads the build number only of a
\* matched run.
RECURSIVE PipelinesLoopLazy(_, _, _, _)
PipelinesLoopLazy(raw, keys, i, acc) ==
    IF i > Len(raw) THEN [err |-> FALSE, val |-> acc]
    ELSE IF "branch" \notin DOMAIN raw[i] THEN [err |-> TRUE, val |-> acc]
    ELSE IF ~RegexSearch(keys, raw[i].branch)
         THEN PipelinesLoopLazy(raw, keys, i + 1, acc)
    ELSE IF "build_number" \notin DOMAIN raw[i] THEN [err |-> TRUE, val |-> acc]
    ELSE LET key == SplitLast(raw[i].branch)
         IN  PipelinesLoopLazy(raw, keys, i + 1,
                 DictSet(acc, key,
                     Append(GetList(acc, key),
                            [url |-> <<PIPELINE_BASE_URL, raw[i].build_number>>,
                             branch |-> raw[i].branch,
                             build_number |-> raw[i].build_number])))

\* The loop of parse_pipelines: branch and build number are read before the
\* pattern is tried.
RECURSIVE PipelinesLoop(_, _, _, _)
PipelinesLoop(raw, keys, i, acc) ==
    IF i > Len(raw) THEN [err |-> FALSE, val |-> acc]
    ELSE IF "branch" \notin DOMAIN raw[i] THEN [err |-> TRUE, val |-> acc]
    ELSE IF "build_number" \notin DOMAIN raw[i] THEN [err |-> TRUE, val |-> acc]
    ELSE IF ~RegexSearch(keys, raw[i].branch)
         THEN PipelinesLoop(raw, keys, i + 1, acc)
    ELSE LET key == SplitLast(raw[i].branch)
         IN  PipelinesLoop(raw, keys, i + 1,
                 DictSet(acc, key,
                     Append(GetList(acc, key),
                            [url |-> <<PIPELINE_BASE_URL, raw[i].build_number>>,
                             branch |-> raw[i].branch,
                             build_number |-> raw[i].build_number])))

\* The comparison that lets a later run of the same build number replace
\* the retained one.
NewerOrEqual(last, build) == last <= build

\* last_build_number < p["build_number"]
Newer(last, build) == last < build

\* for p in pipes: the migrations bucket and the regular_pr bucket of one
\* key.
RECURSIVE FilterRuns(_, _, _, _, _)
FilterRuns(ps, i, migrations, regular, last) ==
    IF i > Len(ps) THEN [migrations |-> migrations, regular_pr |-> regular]
    ELSE IF Contains(ps[i].branch, MIGRA)
         THEN FilterRuns(ps, i + 1, Append(migrations, ps[i]), regular, last)
    ELSE IF Newer(last, ps[i].build_number)
         THEN FilterRuns(ps, i + 1, migrations, <<ps[i]>>, ps[i].build_number)
    ELSE FilterRuns(ps, i + 1, migrations, regular, last)

\* The two buckets added in the other order.
FilteredRegularFirst(ps) ==
    LET f == FilterRuns(ps, 1, <<>>, <<>>, 0)
    IN  f.regular_pr \o f.migrations

\* What lines 157-174 add to results[key]["pipelines"]: the buckets in the
\* order of filtered_pipelines.values(), with last_build_number = 0 at first.
Filtered(ps) ==
    LET f == FilterRuns(ps, 1, <<>>, <<>>, 0)
    IN  f.migrations \o f.regular_pr

\* for key, pipes in pipelines.items() without the results.get(key) test:
\* results[key] raises KeyError for a key that is no issue.
RECURSIVE FilterLoopUnguarded(_, _, _)
FilterLoopUnguarded(d, i, res) ==
    IF i > Len(d) THEN [err |-> FALSE, val |-> res]
    ELSE IF ~DictHas(res, d[i].k) THEN [err |-> TRUE, val |-> res]
    ELSE LET old == DictGet(res, d[i].k)
         IN  FilterLoopUnguarded(d, i + 1,
                 DictSet(res, d[i].k,
                     [old EXCEPT !.pipelines =
                         @ \o Filtered(d[i].v)]))

\* for key, pipes in pipelines.items(): if results.get(key): ...
RECURSIVE FilterLoop(_, _, _)
FilterLoop(d, i, res) ==
    IF i > Len(d) THEN [err |-> FALSE, val |-> res]
    ELSE IF ~DictHas(res, d[i].k) THEN FilterLoop(d, i + 1, res)
    ELSE LET old == DictGet(res, d[i].k)
         IN  FilterLoop(d, i + 1,
                 DictSet(res, d[i].k,
                     [old EXCEPT !.pipelines =
                         @ \o Filtered(d[i].v)]))

\* for key, prs in pullrequests.items() with results.setdefault(key, ...):
\* a key that is no issue gets an entry of its own.
RECURSIVE AssignLoopSetdefault(_, _, _)
AssignLoopSetdefault(d, i, res) ==
    IF i > Len(d) THEN res
    ELSE IF ~DictHas(res, d[i].k)
         THEN AssignLoopSetdefault(d, i + 1,
                  DictSet(res, d[i].k,
                      [id |-> d[i].k, pullrequests |-> d[i].v, pipelines |-> <<>>]))
    ELSE AssignLoopSetdefault(d, i + 1,
             DictSet(res, d[i].k,
                 [DictGet(res, d[i].k) EXCEPT !.pullrequests = d[i].v]))

\* for key, prs in pullrequests.items(): if results.get(key): ...
RECURSIVE AssignLoop(_, _, _)
AssignLoop(d, i, res) ==
    IF i > Len(d) THEN res
    ELSE IF ~DictHas(res, d[i].k) THEN AssignLoop(d, i + 1, res)
    ELSE AssignLoop(d, i + 1,
             DictSet(res, d[i].k,
                 [DictGet(res, d[i].k) EXCEPT !.pullrequests = d[i].v]))

\* ------------------------------------------------- parse_result: actions

\* Lines 129-146: results = {}, the loop over the issues, re.compile.
BuildResults ==
    /\ pc = "start"
    /\ LET r == BuildLoop(issues, 1, EmptyDict)
       IN  /\ results' = r.val
           /\ pc' = IF r.err THEN "raised" ELSE "built"
    /\ UNCHANGED <<issues, prs, pipes, pullrequests, pipelines, failed, out,
                   run, first>>
    /\ UNCHANGED <<mainVars, rebVars, termVars, cacheVars>>

\* The first task of the gather of lines 148-153.
ParsePullrequests ==
    /\ pc = "built"
    /\ LET r == PullrequestsLoop(prs, DictKeys(results), 1, EmptyDict)
       IN  /\ pullrequests' = r.val
           /\ failed' = r.err
    /\ pc' = "prs_parsed"
    /\ UNCHANGED <<issues, prs, pipes, results, pipelines, out, run, first>>
    /\ UNCHANGED <<mainVars, rebVars, termVars, cacheVars>>

\* parse_pipelines whose accumulator outlives the call (a mutable default
\* argument): it starts from what the previous call left.
ParsePipelinesStale ==
    /\ pc = "prs_parsed"
    /\ LET r == PipelinesLoop(pipes, DictKeys(results), 1, pipelines)
       IN  /\ pipelines' = r.val
           /\ pc' = IF failed \/ r.err THEN "raised" ELSE "parsed"
    /\ UNCHANGED <<issues, prs, pipes, results, pullrequests, failed, out,
                   run, first>>
    /\ UNCHANGED <<mainVars, rebVars, termVars, cacheVars>>

\* The second task of the gather; it runs although the first has raised, and
\* the gather then raises the first exception in parse_result.
ParsePipelines ==
    /\ pc = "prs_parsed"
    /\ LET r == PipelinesLoop(pipes, DictKeys(results), 1, EmptyDict)
       IN  /\ pipelines' = r.val
           /\ pc' = IF failed \/ r.err THEN "raised" ELSE "parsed"
    /\ UNCHANGED <<issues, prs, pipes, results, pullrequests, failed, out,
                   run, first>>
    /\ UNCHANGED <<mainVars, rebVars, termVars, cacheVars>>

\* Lines 155-174.
FilterPipelines ==
    /\ pc = "parsed"
    /\ LET r == FilterLoop(pipelines, 1, results)
       IN  /\ results' = r.val
           /\ pc' = IF r.err THEN "raised" ELSE "filtered"
    /\ UNCHANGED <<issues, prs, pipes, pullrequests, pipelines, failed, out,
                   run, first>>
    /\ UNCHANGED <<mainVars, rebVars, termVars, cacheVars>>

\* Lines 176-180.
AssignPullrequests ==
    /\ pc = "filtered"
    /\ results' = AssignLoop(pullrequests, 1, results)
    /\ out' = DictValues(results')
    /\ pc' = "done"
    /\ UNCHANGED <<issues, prs, pipes, pullrequests, pipelines, failed, run,
                   first>>
    /\ UNCHANGED <<mainVars, rebVars, termVars, cacheVars>>

\* The aggregator is run again on the same inputs.  The locals of the new
\* call are unbound until the call assigns them.
CallAgain ==
    /\ pc \in {"done", "raised"}
    /\ run = 1
    /\ first' = [pc |-> pc, out |-> out]
    /\ run' = 2
    /\ pc' = "start"
    /\ out' = <<>>
    /\ failed' = FALSE
    /\ UNCHANGED <<issues, prs, pipes, results, pullrequests, pipelines>>
    /\ UNCHANGED <<mainVars, rebVars, termVars, cacheVars>>

\* ---------------------------------------------------- parse_result: inputs

SeqsUpTo(S, n) == UNION {[1..m -> S] : m \in 0..n}

Issue(key) ==
    [key |-> key, status |-> "Em Teste", issuetype |-> "Bug",
     summary |-> "title", reporter |-> "ana", assignee |-> "bia"]

\* An issue without the assignee's name.
IssueNoAssignee(key) ==
    [key |-> key, status |-> "Em Teste", issuetype |-> "Bug",
     summary |-> "title", reporter |-> "ana"]

IssueKeys == {ABC1, ABC10}

GoodIssues == {Issue(k) : k \in IssueKeys}

AnyIssues == GoodIssues \cup {IssueNoAssignee(ABC1)}

\* The url of the i-th pull request: every pull request has its own.
PRUrl(i) == <<"https://bitbucket/pull-requests", i>>

PRBranches == {bFeature, bFix, bOther, bTen}

\* What a pull request record holds: shapes are stamped with the url of
\* their position.
PRShapes ==
    [branch : PRBranches, fields : {{"branch", "url"}}]
    \cup [branch : {bFeature, bOther}, fields : {{"branch"}}]
    \cup [branch : {bFeature}, fields : {{"url"}}]

GoodPRShapes == {s \in PRShapes : s.fields = {"branch", "url"}}

StampPR(shape, i) ==
    IF shape.fields = {"branch", "url"}
    THEN [branch |-> shape.branch, url |-> PRUrl(i)]
    ELSE IF shape.fields = {"branch"} THEN [branch |-> shape.branch]
    ELSE [url |-> PRUrl(i)]

PRSeqs(shapes, n) ==
    {[i \in 1..Len(s) |-> StampPR(s[i], i)] : s \in SeqsUpTo(shapes, n)}

PipeBranches == {bFeature, bHotfix, bFeatMigra, bMigra, bOther}

\* Bitbucket numbers the builds of a repository from 1.
GoodPipes == [branch : PipeBranches, build_number : 1..MaxBuild]

\* Runs of the first build, and runs without branch or build number.
AnyPipes ==
    [branch : {bFeature, bMigra, bOther}, build_number : {1}]
    \cup {[build_number |-> 1], [branch |-> bOther]}

\* Pull requests for the repeated call.
FewPRShapes ==
    {s \in PRShapes : s.branch \in {bFeature, bOther}}

InitWith(issueSeqs, prSeqs, pipeSeqs) ==
    /\ issues \in issueSeqs
    /\ prs \in prSeqs
    /\ pipes \in pipeSeqs
    /\ pc = "start"
    /\ results = EmptyDict
    /\ pullrequests = EmptyDict
    /\ pipelines = EmptyDict
    /\ failed = FALSE
    /\ out = <<>>
    /\ run = 1
    /\ first = [pc |-> "start", out |-> <<>>]

NextAgg ==
    \/ BuildResults
    \/ ParsePullrequests
    \/ ParsePipelines
    \/ FilterPipelines
    \/ AssignPullrequests
    \/ CallAgain

\* ---------------------------------------------------------- bitjira.main

\* get_jiras_response, get_bitbucket_response("pullrequests"),
\* get_bitbucket_response("pipelines"), in the order of the gather.
Fetches == {"jira", "pullrequests", "pipelines"}

\* A value a fetch leaves in the gather's result: a list of records, or,
\* under return_exceptions=True, the exception the fetch raised.
AList(items) == [kind |-> "list", items |-> items]
AnException == [kind |-> "exception", items |-> <<>>]
Nothing == [kind |-> "none", items |-> <<>>]

\* What the service may answer with status 200.
Payloads(t) ==
    IF t = "jira" THEN {<<>>, <<Issue(ABC1)>>}
    ELSE IF t = "pullrequests" THEN {<<>>, <<[branch |-> bFeature, url |-> PRUrl(1)]>>}
    ELSE {<<>>, <<[branch |-> bFeature, build_number |-> 1]>>}

\* The request is sent; the coroutine waits at `await client.get/post`.
SendRequest(t) ==
    /\ mainPc = "gather"
    /\ fetchPc[t] = "start"
    /\ fetchPc' = [fetchPc EXCEPT ![t] = "awaiting"]
    /\ UNCHANGED <<mainPc, fetchRes, args, aggVars>>
    /\ UNCHANGED <<rebVars, termVars, cacheVars>>

\* What a fetch hands to the gather: the records of a 200 answer, [] for
\* another status, the exception when client.get/post (or reading the
\* answer) raised.
Response(t, status, payload) ==
    IF status = "200" THEN AList(payload)
    ELSE IF status = "other" THEN AList(<<>>)
    ELSE AnException

\* The answer arrives, or the request fails.
Respond(t) ==
    /\ mainPc = "gather"
    /\ fetchPc[t] = "awaiting"
    /\ \E status \in {"200", "other", "raise"} : \E payload \in Payloads(t) :
           fetchRes' = [fetchRes EXCEPT ![t] = Response(t, status, payload)]
    /\ fetchPc' = [fetchPc EXCEPT ![t] = "done"]
    /\ UNCHANGED <<mainPc, args, aggVars>>
    /\ UNCHANGED <<rebVars, termVars, cacheVars>>

\* The gather of lines 245-252 is over; line 254 calls parse_result with what
\* it returned.  Iterating an argument that is an exception object raises
\* TypeError in parse_result (lines 131, 112, 89).
CallParseResult ==
    /\ mainPc = "gather"
    /\ \A t \in Fetches : fetchPc[t] = "done"
    /\ args' = fetchRes
    /\ mainPc' = "parse"
    /\ IF \A t \in Fetches : fetchRes[t].kind = "list"
       THEN /\ issues' = fetchRes["jira"].items
            /\ prs' = fetchRes["pullrequests"].items
            /\ pipes' = fetchRes["pipelines"].items
            /\ pc' = "start"
       ELSE /\ pc' = "raised"
            /\ UNCHANGED <<issues, prs, pipes>>
    /\ UNCHANGED <<fetchPc, fetchRes, results, pullrequests, pipelines, failed,
                   out, run, first>>
    /\ UNCHANGED <<rebVars, termVars, cacheVars>>

\* Lines 258-261 print the result; an exception of parse_result leaves main.
Finish ==
    /\ mainPc = "parse"
    /\ pc \in {"done", "raised"}
    /\ mainPc' = IF pc = "done" THEN "printed" ELSE "crashed"
    /\ UNCHANGED <<fetchPc, fetchRes, args, aggVars>>
    /\ UNCHANGED <<rebVars, termVars, cacheVars>>

MainIdle ==
    /\ mainPc = "idle"
    /\ fetchPc = [t \in Fetches |-> "idle"]
    /\ fetchRes = [t \in Fetches |-> Nothing]
    /\ args = [t \in Fetches |-> Nothing]

NextMain ==
    \/ \E t \in Fetches : SendRequest(t)
    \/ \E t \in Fetches : Respond(t)
    \/ CallParseResult
    \/ BuildResults
    \/ ParsePullrequests
    \/ ParsePipelines
    \/ FilterPipelines
    \/ AssignPullrequests
    \/ Finish

\* ------------------------------------------ terminate_ebs_lambda.rebuild_ebs

MaxEnvs == 3
MaxDate == 2

EnvNames == {"AJ1", "AJ2"}

\* The environments of an answer; each has an EnvironmentId of its own.
EnvShapes ==
    [EnvironmentName : EnvNames, DateCreated : 1..MaxDate,
     Status : {"Terminated", "Ready"}]

StampEnv(shape, i) ==
    [EnvironmentName |-> shape.EnvironmentName, EnvironmentId |-> i,
     DateCreated |-> shape.DateCreated, Status |-> shape.Status]

EnvSeqs ==
    {[i \in 1..Len(s) |-> StampEnv(s[i], i)] : s \in SeqsUpTo(EnvShapes, MaxEnvs)}

\* sorted(..., key=DateCreated, reverse=True): descending, and stable (equal
\* dates keep the order of the answer).
RECURSIVE InsertByDate(_, _)
InsertByDate(sorted, e) ==
    IF sorted = <<>> THEN <<e>>
    ELSE IF Head(sorted).DateCreated >= e.DateCreated
         THEN <<Head(sorted)>> \o InsertByDate(Tail(sorted), e)
    ELSE <<e>> \o sorted

RECURSIVE SortedNewestFirst(_, _, _)
SortedNewestFirst(s, i, acc) ==
    IF i > Len(s) THEN acc
    ELSE SortedNewestFirst(s, i + 1, InsertByDate(acc, s[i]))

\* filter(lambda x: x["Status"] == "Terminated", ...)
RECURSIVE OnlyTerminated(_)
OnlyTerminated(s) ==
    IF s = <<>> THEN <<>>
    ELSE IF Head(s).Status = "Terminated"
         THEN <<Head(s)>> \o OnlyTerminated(Tail(s))
    ELSE OnlyTerminated(Tail(s))

InSeq(x, s) == \E i \in 1..Len(s) : s[i] = x

\* Lines 153-163: the Jira search; another status than 200 ends the function.
JiraSearch ==
    /\ rbPc = "start"
    /\ \E status \in {"200", "other"} :
           rbPc' = IF status = "200" THEN "found" ELSE "returned"
    /\ UNCHANGED <<envs, todo, rebuilt, calls, mail>>
    /\ UNCHANGED <<aggVars, mainVars, termVars, cacheVars>>

\* Lines 168-181: describe_environments, and the iterator of the loop.
DescribeEnvironments ==
    /\ rbPc = "found"
    /\ todo' = OnlyTerminated(SortedNewestFirst(envs, 1, <<>>))
    /\ rebuilt' = <<>>
    /\ rbPc' = "loop"
    /\ UNCHANGED <<envs, calls, mail>>
    /\ UNCHANGED <<aggVars, mainVars, termVars, cacheVars>>

\* One turn of the loop of lines 179-193; rebuild_environment may raise a
\* ClientError, which leaves the function.
RebuildNext ==
    /\ rbPc = "loop"
    /\ todo # <<>>
    /\ todo' = Tail(todo)
    /\ IF ~InSeq(Head(todo).EnvironmentName, rebuilt)
       THEN /\ calls' = Append(calls, Head(todo))
            /\ \E ok \in BOOLEAN :
                   IF ok
                   THEN /\ rebuilt' = Append(rebuilt, Head(todo).EnvironmentName)
                        /\ rbPc' = "loop"
                   ELSE /\ rebuilt' = rebuilt
                        /\ rbPc' = "raised"
       ELSE UNCHANGED <<calls, rebuilt, rbPc>>
    /\ UNCHANGED <<envs, mail>>
    /\ UNCHANGED <<aggVars, mainVars, termVars, cacheVars>>

\* Lines 195-203: the notification, when something was rebuilt.
NotifyRebuilt ==
    /\ rbPc = "loop"
    /\ todo = <<>>
    /\ mail' = IF rebuilt # <<>> THEN <<rebuilt>> ELSE mail
    /\ rbPc' = "returned"
    /\ UNCHANGED <<envs, todo, rebuilt, calls>>
    /\ UNCHANGED <<aggVars, mainVars, termVars, cacheVars>>

RebuildIdle ==
    /\ envs = <<>>
    /\ rbPc = "idle"
    /\ todo = <<>>
    /\ rebuilt = <<>>
    /\ calls = <<>>
    /\ mail = <<>>

NextRebuild ==
    \/ JiraSearch
    \/ DescribeEnvironments
    \/ RebuildNext
    \/ NotifyRebuilt

\* ------------------------------------ lambda_handler and terminate_ebs

\* Environment names, letter by letter.
AJ == <<"A", "J">>
TermNames ==
    {<<"A", "J", "1">>, <<"A", "J", "2">>, <<"P", "A", "J">>, <<"a", "j", "1">>}

TermStatuses == {"Ready", "Terminated", "Updating"}

TermShapes == [EnvironmentName : TermNames, Status : TermStatuses]

StampTermEnv(shape, i) ==
    [EnvironmentName |-> shape.EnvironmentName, EnvironmentId |-> i,
     Status |-> shape.Status]

\* The answers of describe_environments: a list of environments under
\* "Environments", or an answer without that key.
Answers ==
    {[Environments |-> [i \in 1..Len(s) |-> StampTermEnv(s[i], i)]] :
         s \in SeqsUpTo(TermShapes, MaxEnvs)}
    \cup {[ResponseMetadata |-> "meta"]}

\* The events of an invocation; event.get(k) is truthy when k is there with
\* a value that is not empty.
Events ==
    {[rebuild |-> "1"], [terminate |-> "1"],
     [rebuild |-> "1", terminate |-> "1"],
     [rebuild |-> "", terminate |-> "1"],
     [terminate |-> ""], [other |-> "1"]}

EventGet(ev, k) == k \in DOMAIN ev /\ ev[k] # ""

\* str.startswith
StartsWith(s, prefix) ==
    /\ Len(s) >= Len(prefix)
    /\ SubSeq(s, 1, Len(prefix)) = prefix

\* The lambda of line 102.
TerminateFilter(x) ==
    StartsWith(x.EnvironmentName, AJ) /\ x.Status = "Ready"

\* filter(lambda, eb_envs["Environments"]): in the order of the answer.
RECURSIVE FilterEnvs(_)
FilterEnvs(s) ==
    IF s = <<>> THEN <<>>
    ELSE IF TerminateFilter(Head(s))
         THEN <<Head(s)>> \o FilterEnvs(Tail(s))
    ELSE FilterEnvs(Tail(s))

\* Lines 214-217: rebuild is looked at first, then terminate; any other event
\* ends the handler.
LambdaHandler ==
    /\ tePc = "invoked"
    /\ \E ev \in Events :
           /\ event' = ev
           /\ tePc' = IF EventGet(ev, "rebuild") THEN "rebuild_ebs"
                      ELSE IF EventGet(ev, "terminate") THEN "terminate_ebs"
                      ELSE "returned"
    /\ UNCHANGED <<eb_envs, teTodo, terminated_environments, teCalls, teMail>>
    /\ UNCHANGED <<aggVars, mainVars, rebVars, cacheVars>>

\* Lines 89-104: describe_environments, the test of the key, and the
\* iterator of the loop.
TerminateDescribe ==
    /\ tePc = "terminate_ebs"
    /\ IF "Environments" \notin DOMAIN eb_envs
       THEN /\ tePc' = "returned"
            /\ UNCHANGED <<teTodo, terminated_environments>>
       ELSE /\ teTodo' = FilterEnvs(eb_envs.Environments)
            /\ terminated_environments' = <<>>
            /\ tePc' = "loop"
    /\ UNCHANGED <<event, eb_envs, teCalls, teMail>>
    /\ UNCHANGED <<aggVars, mainVars, rebVars, cacheVars>>

\* Lines 105-110: one turn of the loop. terminate_environment may raise a
\* ClientError, which nothing catches.
TerminateNext ==
    /\ tePc = "loop"
    /\ teTodo # <<>>
    /\ teTodo' = Tail(teTodo)
    /\ teCalls' = Append(teCalls, Head(teTodo))
    /\ \E ok \in BOOLEAN :
           IF ok
           THEN /\ terminated_environments' =
                       Append(terminated_environments,
                              Head(teTodo).EnvironmentName)
                /\ tePc' = "loop"
           ELSE /\ terminated_environments' = terminated_environments
                /\ tePc' = "raised"
    /\ UNCHANGED <<event, eb_envs, teMail>>
    /\ UNCHANGED <<aggVars, mainVars, rebVars, cacheVars>>

\* Lines 112-120: the notification, when something was terminated.
NotifyTerminated ==
    /\ tePc = "loop"
    /\ teTodo = <<>>
    /\ teMail' = IF terminated_environments # <<>>
                 THEN Append(teMail, terminated_environments)
                 ELSE teMail
    /\ tePc' = "returned"
    /\ UNCHANGED <<event, eb_envs, teTodo, terminated_environments, teCalls>>
    /\ UNCHANGED <<aggVars, mainVars, rebVars, cacheVars>>

TermIdle ==
    /\ event = [other |-> "1"]
    /\ eb_envs = [ResponseMetadata |-> "meta"]
    /\ tePc = "idle"
    /\ teTodo = <<>>
    /\ terminated_environments = <<>>
    /\ teCalls = <<>>
    /\ teMail = <<>>

NextTerminate ==
    \/ LambdaHandler
    \/ TerminateDescribe
    \/ TerminateNext
    \/ NotifyTerminated

\* ---------------------------------- Handler.get_environment_variables

MaxTicks == 3
MaxSettings == 2

\* timeout=14400 of line 82, and the seconds one step of the clock takes.
Timeout == 14400
TickSeconds == 7200

ENV_NAMESPACE == "aws:elasticbeanstalk:application:environment"

\* f"{env_name}__{app_name}"
KeyOf(env_name, app_name) == <<env_name, "__", app_name>>

Keys == {KeyOf("env1", "app"), KeyOf("env2", "app")}

\* The option settings describe_configuration_settings may answer with.
Settings ==
    {[Namespace |-> ENV_NAMESPACE, OptionName |-> "A", Value |-> "1"],
     [Namespace |-> ENV_NAMESPACE, OptionName |-> "B", Value |-> "2"],
     [Namespace |-> "aws:autoscaling:asg", OptionName |-> "A", Value |-> "9"]}

OptionSettings == SeqsUpTo(Settings, MaxSettings)

\* Lines 67-76: the dict of the options of the environment namespace.
RECURSIVE EnvVarsOf(_, _)
EnvVarsOf(settings, acc) ==
    IF settings = <<>> THEN acc
    ELSE EnvVarsOf(Tail(settings),
                   IF Head(settings).Namespace = ENV_NAMESPACE
                   THEN DictSet(acc, Head(settings).OptionName,
                                Head(settings).Value)
                   ELSE acc)

\* json.dumps of a dict of strings, token by token.
RECURSIVE JsonItems(_)
JsonItems(d) ==
    IF d = <<>> THEN <<>>
    ELSE <<Head(d).k, ":", Head(d).v>>
         \o (IF Len(d) > 1 THEN <<",">> ELSE <<>>)
         \o JsonItems(Tail(d))

JsonDumps(d) == <<"{">> \o JsonItems(d) \o <<"}">>

\* json.loads of such a text.
RECURSIVE JsonParseItems(_, _)
JsonParseItems(tokens, acc) ==
    IF Len(tokens) < 3 THEN acc
    ELSE JsonParseItems(SubSeq(tokens, 5, Len(tokens)),
                        DictSet(acc, tokens[1], tokens[3]))

JsonLoads(text) == JsonParseItems(SubSeq(text, 2, Len(text) - 1), EmptyDict)

\* What redis holds for a key that was never set.
NoEntry == [set |-> FALSE, value |-> <<>>, expireAt |-> 0]

\* r.get(key): None (here <<>>) when the key was never set or has expired.
RedisGet(key) ==
    IF store[key].set /\ now < store[key].expireAt THEN store[key].value
    ELSE <<>>

\* Lines 35-37: getkey.
Getkey(key) ==
    LET value == RedisGet(key)
    IN  IF value # <<>> THEN JsonLoads(value) ELSE EmptyDict

\* Lines 39-42: setkey with a timeout.
Setkey(key, value, timeout) ==
    [store EXCEPT ![key] =
        [set |-> TRUE, value |-> JsonDumps(value), expireAt |-> now + timeout]]

NoHit == [alive |-> FALSE, given |-> EmptyDict]

NoHandler == [invalidate |-> FALSE, bool |-> "none"]

\* Lines 25-33: the truth of the RedisHandler is the answer of the first
\* ping, kept afterwards.
Pings(h) == IF h.bool = "None" THEN {"True", "False"} ELSE {h.bool}

\* Lines 46-49 and 167-174: a process starts and builds its Handler.
NewHandler ==
    /\ callPc = "nohandler"
    /\ \E inv \in BOOLEAN : handler' = [invalidate |-> inv, bool |-> "None"]
    /\ callPc' = "idle"
    /\ UNCHANGED <<store, now, callKey, env_vars, apiCalled, cacheRead, hit,
                   given>>
    /\ UNCHANGED <<aggVars, mainVars, rebVars, termVars>>

\* Lines 178-186: main calls get_environment_variables for an environment.
Call ==
    /\ callPc = "idle"
    /\ \E key \in Keys : callKey' = key
    /\ env_vars' = EmptyDict
    /\ apiCalled' = FALSE
    /\ cacheRead' = FALSE
    /\ hit' = NoHit
    /\ callPc' = "lookup"
    /\ UNCHANGED <<store, now, handler, given>>
    /\ UNCHANGED <<aggVars, mainVars, rebVars, termVars>>

\* Lines 54-60: the cache is skipped or read.
Lookup ==
    /\ callPc = "lookup"
    /\ IF handler.invalidate
       THEN /\ env_vars' = EmptyDict
            /\ UNCHANGED <<handler, cacheRead, hit>>
       ELSE \E b \in Pings(handler) :
                /\ handler' = [handler EXCEPT !.bool = b]
                /\ IF b = "False"
                   THEN /\ env_vars' = EmptyDict
                        /\ UNCHANGED <<cacheRead, hit>>
                   ELSE /\ env_vars' = Getkey(callKey)
                        /\ cacheRead' = TRUE
                        /\ hit' = [alive |-> RedisGet(callKey) # <<>>,
                                   given |-> given[callKey]]
    /\ callPc' = "looked"
    /\ UNCHANGED <<store, now, callKey, apiCalled, given>>
    /\ UNCHANGED <<aggVars, mainVars, rebVars, termVars>>

\* Lines 62-83: with nothing from the cache, the API is called and its
\* answer is set in redis when redis answers.
Fetch ==
    /\ callPc = "looked"
    /\ IF env_vars = EmptyDict
       THEN \E settings \in OptionSettings, b \in Pings(handler) :
                /\ env_vars' = EnvVarsOf(settings, EmptyDict)
                /\ apiCalled' = TRUE
                /\ handler' = [handler EXCEPT !.bool = b]
                /\ IF b = "True"
                   THEN /\ store' = Setkey(callKey, env_vars', Timeout)
                        /\ given' = [given EXCEPT ![callKey] = env_vars']
                   ELSE UNCHANGED <<store, given>>
       ELSE UNCHANGED <<env_vars, apiCalled, handler, store, given>>
    /\ callPc' = "returned"
    /\ UNCHANGED <<now, callKey, cacheRead, hit>>
    /\ UNCHANGED <<aggVars, mainVars, rebVars, termVars>>

\* Lines 85 and 188-196: the value is returned and printed.
Return ==
    /\ callPc = "returned"
    /\ callPc' = "idle"
    /\ UNCHANGED <<store, now, handler, callKey, env_vars, apiCalled,
                   cacheRead, hit, given>>
    /\ UNCHANGED <<aggVars, mainVars, rebVars, termVars>>

\* Line 178: the loop of main has no environment left and the process ends.
Exit ==
    /\ callPc = "idle"
    /\ handler' = NoHandler
    /\ callPc' = "nohandler"
    /\ UNCHANGED <<store, now, callKey, env_vars, apiCalled, cacheRead, hit,
                   given>>
    /\ UNCHANGED <<aggVars, mainVars, rebVars, termVars>>

\* Time passes.
Tick ==
    /\ callPc \in {"nohandler", "idle", "lookup", "looked"}
    /\ now < MaxTicks * TickSeconds
    /\ now' = now + TickSeconds
    /\ UNCHANGED <<store, handler, callPc, callKey, env_vars, apiCalled,
                   cacheRead, hit, given>>
    /\ UNCHANGED <<aggVars, mainVars, rebVars, termVars>>

CacheIdle ==
    /\ store = [key \in Keys |-> NoEntry]
    /\ now = 0
    /\ handler = NoHandler
    /\ callPc = "off"
    /\ callKey = KeyOf("env1", "app")
    /\ env_vars = EmptyDict
    /\ apiCalled = FALSE
    /\ cacheRead = FALSE
    /\ hit = NoHit
    /\ given = [key \in Keys |-> EmptyDict]

NextCache ==
    \/ NewHandler
    \/ Call
    \/ Lookup
    \/ Fetch
    \/ Return
    \/ Exit
    \/ Tick

\* -------------------------------------------------------- specifications

vars == <<aggVars, mainVars, rebVars, termVars, cacheVars>>

AggIdle ==
    /\ issues = <<>>
    /\ prs = <<>>
    /\ pipes = <<>>
    /\ pc = "idle"
    /\ results = EmptyDict
    /\ pullrequests = EmptyDict
    /\ pipelines = EmptyDict
    /\ failed = FALSE
    /\ out = <<>>
    /\ run = 1
    /\ first = [pc |-> "start", out |-> <<>>]

\* One call of parse_result on every input, malformed records included, with
\* at most MaxPipes pipeline runs.
Init ==
    /\ InitWith(SeqsUpTo(AnyIssues, MaxIssues), PRSeqs(PRShapes, MaxPRs),
                SeqsUpTo(AnyPipes, MaxPipes))
    /\ MainIdle
    /\ RebuildIdle
    /\ TermIdle
    /\ CacheIdle

\* One call of parse_result.
Next ==
    \/ BuildResults
    \/ ParsePullrequests
    \/ ParsePipelines
    \/ FilterPipelines
    \/ AssignPullrequests

Spec == Init /\ [][Next]_vars

\* parse_result called twice on the same inputs.
InitTwice ==
    /\ InitWith(SeqsUpTo(AnyIssues, MaxIssues), PRSeqs(FewPRShapes, MaxPRs),
                SeqsUpTo(AnyPipes, MaxPipes))
    /\ MainIdle
    /\ RebuildIdle
    /\ TermIdle
    /\ CacheIdle

SpecTwice == InitTwice /\ [][NextAgg]_vars

\* One call of parse_result on two issues, no pull request and up to
\* MaxPipeRuns well-formed pipeline runs.
InitPipes ==
    /\ InitWith({<<Issue(XYZ9), Issue(ABC1)>>}, {<<>>},
                SeqsUpTo(GoodPipes, MaxPipeRuns))
    /\ MainIdle
    /\ RebuildIdle
    /\ TermIdle
    /\ CacheIdle

SpecPipes == InitPipes /\ [][Next]_vars

\* main: the three fetches, then parse_result on what they returned.
InitMain ==
    /\ AggIdle
    /\ mainPc = "gather"
    /\ fetchPc = [t \in Fetches |-> "start"]
    /\ fetchRes = [t \in Fetches |-> Nothing]
    /\ args = [t \in Fetches |-> Nothing]
    /\ RebuildIdle
    /\ TermIdle
    /\ CacheIdle

SpecMain == InitMain /\ [][NextMain]_vars

\* rebuild_ebs on every answer of describe_environments.
InitRebuild ==
    /\ AggIdle
    /\ MainIdle
    /\ TermIdle
    /\ CacheIdle
    /\ envs \in EnvSeqs
    /\ rbPc = "start"
    /\ todo = <<>>
    /\ rebuilt = <<>>
    /\ calls = <<>>
    /\ mail = <<>>

SpecRebuild == InitRebuild /\ [][NextRebuild]_vars

\* One invocation of lambda_handler, on every event and every answer of
\* describe_environments.
InitTerminate ==
    /\ AggIdle
    /\ MainIdle
    /\ RebuildIdle
    /\ CacheIdle
    /\ event = [other |-> "1"]
    /\ eb_envs \in Answers
    /\ tePc = "invoked"
    /\ teTodo = <<>>
    /\ terminated_environments = <<>>
    /\ teCalls = <<>>
    /\ teMail = <<>>

SpecTerminate == InitTerminate /\ [][NextTerminate]_vars

\* Processes that run describe_variables one after the other against the
\* same redis, each with its own --invalidate.
InitCache ==
    /\ AggIdle
    /\ MainIdle
    /\ RebuildIdle
    /\ TermIdle
    /\ store = [key \in Keys |-> NoEntry]
    /\ now = 0
    /\ handler = NoHandler
    /\ callPc = "nohandler"
    /\ callKey = KeyOf("env1", "app")
    /\ env_vars = EmptyDict
    /\ apiCalled = FALSE
    /\ cacheRead = FALSE
    /\ hit = NoHit
    /\ given = [key \in Keys |-> EmptyDict]

SpecCache == InitCache /\ [][NextCache]_vars


\* ------------------------------------------ parse_result: the claims' terms

\* The identifier occurs somewhere in the branch name.
Occurs(id, branch) ==
    \E i \in 1..Len(branch) :
        \A j \in 1..Len(id) : i + j - 1 <= Len(branch) /\ branch[i + j - 1] = id[j]

\* The branch name is the identifier, or ends with "/" and the identifier.
LastSegmentIs(id, branch) ==
    /\ Len(branch) >= Len(id)
    /\ \A j \in 1..Len(id) : branch[Len(branch) - Len(id) + j] = id[j]
    /\ Len(branch) > Len(id) => branch[Len(branch) - Len(id)] = "/"

GoodIssue(r) == DOMAIN r = IssueFields
GoodPR(r) == DOMAIN r = {"branch", "url"}
GoodPipe(r) == DOMAIN r = {"branch", "build_number"}

\* Every record of the three inputs holds every field.
WellFormed ==
    /\ \A i \in 1..Len(issues) : GoodIssue(issues[i])
    /\ \A i \in 1..Len(prs) : GoodPR(prs[i])
    /\ \A i \in 1..Len(pipes) : GoodPipe(pipes[i])

Ended == pc \in {"done", "raised"}

\* The summary of a pipeline run, as the output holds it.
PipeSummary(r) ==
    [url |-> <<PIPELINE_BASE_URL, r.build_number>>, branch |-> r.branch,
     build_number |-> r.build_number]

\* The elements of s at the indices in S, in the order of s.
RECURSIVE Pick(_, _, _)
Pick(s, S, i) ==
    IF i > Len(s) THEN <<>>
    ELSE IF i \in S THEN <<s[i]>> \o Pick(s, S, i + 1)
    ELSE Pick(s, S, i + 1)

\* The indices of the pipeline runs tied to the issue by Match, with and
\* without "migra" in the branch name.
MigrationRuns(Match(_, _), id) ==
    {i \in 1..Len(pipes) : Match(id, pipes[i].branch) /\ Occurs(MIGRA, pipes[i].branch)}

RegularRuns(Match(_, _), id) ==
    {i \in 1..Len(pipes) : Match(id, pipes[i].branch) /\ ~Occurs(MIGRA, pipes[i].branch)}

\* The pipelines list of every output entry: the migration runs of the issue
\* in input order, then one regular run if the issue has any.
PipelinesShape(Match(_, _)) ==
    (WellFormed /\ Ended) =>
        /\ pc = "done"
        /\ \A n \in 1..Len(out) :
            LET migs == Pick([i \in 1..Len(pipes) |-> PipeSummary(pipes[i])],
                             MigrationRuns(Match, out[n].id), 1)
                regs == RegularRuns(Match, out[n].id)
                list == out[n].pipelines
            IN  /\ Len(list) = Len(migs) + (IF regs = {} THEN 0 ELSE 1)
                /\ SubSeq(list, 1, Len(migs)) = migs
                /\ regs # {} =>
                       \E i \in regs : list[Len(list)] = PipeSummary(pipes[i])

\* C1: for non-empty Issues with pairwise distinct identifiers and any
\* well-formed PullRequests and PipelineRuns, parse_result returns one entry
\* per input Issue, the i-th entry carrying the i-th Issue's identifier.
C1_OrderPreservingBijection ==
    ( /\ WellFormed
      /\ Ended
      /\ issues # <<>>
      /\ \A i, j \in 1..Len(issues) : i # j => issues[i].key # issues[j].key )
    => /\ pc = "done"
       /\ Len(out) = Len(issues)
       /\ \A i \in 1..Len(issues) : out[i].id = issues[i].key

C1_Witness ==
    /\ pc = "done"
    /\ WellFormed
    /\ Len(issues) = 2
    /\ issues[1].key = ABC10
    /\ issues[2].key = ABC1
    /\ \E i \in 1..Len(prs) : prs[i].branch = bFeature

\* C2, as claimed: a pull request whose branch contains an input Issue's
\* identifier anywhere is listed, as {url, branch}, in that Issue's
\* pullrequests.
C2_ContainsAnywhere ==
    (WellFormed /\ pc = "done") =>
        \A i \in 1..Len(prs) : \A j \in 1..Len(issues) :
            Occurs(issues[j].key, prs[i].branch) =>
                \E n \in 1..Len(out) :
                    /\ out[n].id = issues[j].key
                    /\ \E m \in 1..Len(out[n].pullrequests) :
                           out[n].pullrequests[m] =
                               [url |-> prs[i].url, branch |-> prs[i].branch]

\* C2, amended: a pull request is listed, as {url, branch}, in the
\* pullrequests of the input Issue whose identifier is the last
\* "/"-separated segment of its branch name.
C2_LastSegment ==
    (WellFormed /\ Ended) =>
        /\ pc = "done"
        /\ \A i \in 1..Len(prs) : \A j \in 1..Len(issues) :
            LastSegmentIs(issues[j].key, prs[i].branch) =>
                \E n \in 1..Len(out) :
                    /\ out[n].id = issues[j].key
                    /\ \E m \in 1..Len(out[n].pullrequests) :
                           out[n].pullrequests[m] =
                               [url |-> prs[i].url, branch |-> prs[i].branch]

C2_Witness ==
    /\ pc = "done"
    /\ WellFormed
    /\ Len(prs) = 2
    /\ prs[1].branch = bFix
    /\ prs[2].branch = bFeature
    /\ \E j \in 1..Len(issues) : issues[j].key = ABC1
    /\ \E n \in 1..Len(out) : Len(out[n].pullrequests) = 1

\* C3, as claimed: with the runs of an issue being those whose branch
\* contains its identifier, the pipelines list of every output entry is the
\* issue's "migra" runs in input order followed by exactly one regular run
\* when the issue has one, as for runs "feature/migra-ABC-1" and
\* "feature/ABC-1" of ABC-1.
C3_MigrationsOfContaining == PipelinesShape(Occurs)

\* C3, amended: with the runs of an issue being those whose branch has the
\* identifier as its last "/"-separated segment, the pipelines list of every
\* output entry is the issue's "migra" runs in input order followed by
\* exactly one regular run when the issue has one.
C3_MigrationsThenRegular == PipelinesShape(LastSegmentIs)

C3_Witness ==
    /\ pc = "done"
    /\ Len(issues) = 2
    /\ issues[2].key = ABC1
    /\ Len(pipes) = 3
    /\ pipes[1].branch = bMigra
    /\ pipes[2].branch = bFeature
    /\ pipes[3].branch = bMigra
    /\ pipes[1].build_number # pipes[3].build_number
    /\ Len(out[2].pipelines) = 3

\* C4: of the regular runs of an issue, the output keeps only the one with
\* the largest build number, and of several with that number the first in
\* input order.
C4_LargestBuildFirstSeen ==
    (WellFormed /\ Ended) =>
        /\ pc = "done"
        /\ \A n \in 1..Len(out) :
            LET regs == RegularRuns(LastSegmentIs, out[n].id)
                kept == {m \in 1..Len(out[n].pipelines) :
                            ~Occurs(MIGRA, out[n].pipelines[m].branch)}
            IN  IF regs = {} THEN kept = {}
                ELSE LET best == CHOOSE i \in regs :
                             /\ \A j \in regs :
                                    pipes[j].build_number <= pipes[i].build_number
                             /\ \A j \in regs :
                                    pipes[j].build_number = pipes[i].build_number
                                        => i <= j
                     IN  /\ Cardinality(kept) = 1
                         /\ \A m \in kept :
                                out[n].pipelines[m] = PipeSummary(pipes[best])

C4_Witness ==
    /\ pc = "done"
    /\ Len(issues) = 2
    /\ issues[2].key = ABC1
    /\ Len(pipes) = 3
    /\ pipes[1] = [branch |-> bFeature, build_number |-> 1]
    /\ pipes[2] = [branch |-> bHotfix, build_number |-> 3]
    /\ pipes[3] = [branch |-> bFeature, build_number |-> 3]
    /\ out[2].pipelines = <<PipeSummary(pipes[2])>>

\* C5: the output holds entries of input Issues only, and a pull request or
\* pipeline run whose branch contains no input Issue's identifier is in no
\* entry's lists.
C5_UnmatchedDropped ==
    pc = "done" =>
        /\ \A n \in 1..Len(out) : \E j \in 1..Len(issues) : issues[j].key = out[n].id
        /\ \A i \in 1..Len(prs) :
            ( /\ "branch" \in DOMAIN prs[i]
              /\ \A j \in 1..Len(issues) : ~Occurs(issues[j].key, prs[i].branch) )
            => \A n \in 1..Len(out) : \A m \in 1..Len(out[n].pullrequests) :
                   out[n].pullrequests[m].branch # prs[i].branch
        /\ \A i \in 1..Len(pipes) :
            ( /\ "branch" \in DOMAIN pipes[i]
              /\ \A j \in 1..Len(issues) : ~Occurs(issues[j].key, pipes[i].branch) )
            => \A n \in 1..Len(out) : \A m \in 1..Len(out[n].pipelines) :
                   out[n].pipelines[m].branch # pipes[i].branch

C5_Witness ==
    /\ pc = "done"
    /\ WellFormed
    /\ Len(issues) = 1
    /\ issues[1].key = ABC1
    /\ Len(prs) = 2
    /\ prs[1].branch = bOther
    /\ prs[2].branch = bFeature
    /\ Len(pipes) = 1
    /\ pipes[1].branch = bOther
    /\ Len(out[1].pullrequests) = 1
    /\ out[1].pipelines = <<>>

\* C6, as claimed: when any record lacks a field, the call ends with an
\* error and returns nothing.
C6_MalformedAlwaysFails ==
    (Ended /\ ~WellFormed) => (pc = "raised" /\ out = <<>>)

\* The malformed records parse_result reads the missing field of.
MustFail ==
    \/ \E i \in 1..Len(issues) : ~GoodIssue(issues[i])
    \/ \E i \in 1..Len(prs) : "branch" \notin DOMAIN prs[i]
    \/ \E i \in 1..Len(pipes) : ~GoodPipe(pipes[i])
    \/ \E i \in 1..Len(prs) :
           /\ DOMAIN prs[i] = {"branch"}
           /\ \/ issues = <<>>
              \/ \E j \in 1..Len(issues) : Occurs(issues[j].key, prs[i].branch)

\* C6, amended: the call ends with an error and returns nothing exactly when
\* an Issue lacks a field, a PullRequest lacks its branch, a PipelineRun
\* lacks its branch or build number, or a PullRequest lacks its url and its
\* branch is matched by the pattern (it contains an input identifier, or
\* Issues is empty); a PullRequest without url whose branch the pattern does
\* not match is skipped and the call returns.
C6_FailsWhenFieldIsRead ==
    Ended => /\ (pc = "raised") = MustFail
             /\ pc = "raised" => out = <<>>

C6_Witness ==
    /\ pc = "done"
    /\ Len(issues) = 1
    /\ issues[1].key = ABC1
    /\ Len(prs) = 2
    /\ prs[1] = [branch |-> bOther]
    /\ prs[2].branch = bFeature
    /\ Len(out) = 1
    /\ Len(out[1].pullrequests) = 1

\* C7: with no Issues, parse_result returns the empty sequence and raises
\* nothing, whatever well-formed PullRequests and PipelineRuns it is given.
C7_EmptyIssuesEmptyResult ==
    ( /\ issues = <<>>
      /\ WellFormed
      /\ Ended )
    => (pc = "done" /\ out = <<>>)

C7_Witness ==
    /\ issues = <<>>
    /\ WellFormed
    /\ Len(prs) = 2
    /\ Len(pipes) = 1
    /\ pc = "done"
    /\ pipelines # EmptyDict
    /\ pullrequests # EmptyDict

\* C8: a second run on the same inputs ends as the first did, with the same
\* output, and no step of a run changes the three inputs.
C8_SecondRunSame ==
    /\ [](run = 2 /\ Ended => first = [pc |-> pc, out |-> out])
    /\ [][issues' = issues /\ prs' = prs /\ pipes' = pipes]_vars

C8_Witness ==
    /\ run = 2
    /\ pc = "done"
    /\ Len(out) = 2
    /\ \E n \in 1..Len(out) :
           /\ Len(out[n].pullrequests) = 2
           /\ Len(out[n].pipelines) = 1
           /\ Occurs(MIGRA, out[n].pipelines[1].branch)

\* ------------------------------------------------------ main: the claim

\* C9: parse_result starts only after the three fetches have finished, and
\* each of its three arguments is a collection of records, the empty one for
\* a fetch that failed.
C9_ArgumentsAreCollections ==
    mainPc \in {"parse", "printed", "crashed"} =>
        /\ \A t \in Fetches : fetchPc[t] = "done"
        /\ \A t \in Fetches : args[t].kind = "list"

\* ----------------------------------------------- rebuild_ebs: the claim

\* C10: rebuild_environment is called at most once for a name, only on the
\* environment with the latest DateCreated of the returned environments of
\* that name, and only when that environment is Terminated.
C10_OnlyNewestOfEachName ==
    /\ \A i, j \in 1..Len(calls) :
           i # j => calls[i].EnvironmentName # calls[j].EnvironmentName
    /\ \A i \in 1..Len(calls) :
           /\ InSeq(calls[i], envs)
           /\ calls[i].Status = "Terminated"
           /\ \A k \in 1..Len(envs) :
                  envs[k].EnvironmentName = calls[i].EnvironmentName
                      => envs[k].DateCreated <= calls[i].DateCreated

\* ------------------------------------------------------------ terminate_ebs

\* An invocation that reached terminate_ebs and got a list of environments.
TerminateRan ==
    /\ tePc \in {"returned", "raised"}
    /\ ~EventGet(event, "rebuild")
    /\ EventGet(event, "terminate")
    /\ "Environments" \in DOMAIN eb_envs

\* The environment's name begins with "AJ" and its status is "Ready".
ReadyAJ(e) ==
    /\ Len(e.EnvironmentName) >= 2
    /\ e.EnvironmentName[1] = "A"
    /\ e.EnvironmentName[2] = "J"
    /\ e.Status = "Ready"

CalledOn(e) == \E i \in 1..Len(teCalls) : teCalls[i] = e

\* The names of the environments whose terminate_environment call went
\* through, in the order of the calls.
RECURSIVE NamesOfTerminated(_, _)
NamesOfTerminated(cs, raisedLast) ==
    IF cs = <<>> \/ (raisedLast /\ Len(cs) = 1) THEN <<>>
    ELSE <<Head(cs).EnvironmentName>> \o NamesOfTerminated(Tail(cs), raisedLast)

\* C11: when terminate_ebs has ended, terminate_environment was called on
\* exactly the environments whose name starts with "AJ" and whose status is
\* "Ready"; the notification was sent once if at least one environment was
\* terminated and not at all otherwise, and it lists the terminated names in
\* the order of termination; it is never sent while terminations remain.
C11_TerminatesReadyAJAndNotifies ==
    /\ teMail # <<>> => tePc = "returned"
    /\ TerminateRan =>
           /\ \A i \in 1..Len(eb_envs.Environments) :
                  CalledOn(eb_envs.Environments[i])
                      <=> ReadyAJ(eb_envs.Environments[i])
           /\ \A i \in 1..Len(teCalls) : CalledOn(teCalls[i]) /\
                  \E k \in 1..Len(eb_envs.Environments) :
                      eb_envs.Environments[k] = teCalls[i]
           /\ LET names == NamesOfTerminated(teCalls, tePc = "raised")
              IN  teMail = IF names # <<>> THEN <<names>> ELSE <<>>

\* What remains of C11 when a terminate_environment call may raise: no call
\* on another environment, the calls in the order of the answer, at most one
\* notification, only after the loop, listing the terminated names; and all
\* of C11 on the invocations that return.
C11_OnReturn ==
    /\ teMail # <<>> => tePc = "returned"
    /\ Len(teMail) <= 1
    /\ \A i \in 1..Len(teCalls) :
           /\ ReadyAJ(teCalls[i])
           /\ \E k \in 1..Len(eb_envs.Environments) :
                  eb_envs.Environments[k] = teCalls[i]
           /\ \A j \in 1..Len(teCalls) :
                  i < j => teCalls[i].EnvironmentId < teCalls[j].EnvironmentId
    /\ TerminateRan /\ tePc = "returned" =>
           /\ \A i \in 1..Len(eb_envs.Environments) :
                  CalledOn(eb_envs.Environments[i])
                      <=> ReadyAJ(eb_envs.Environments[i])
           /\ LET names == NamesOfTerminated(teCalls, FALSE)
              IN  teMail = IF names # <<>> THEN <<names>> ELSE <<>>

\* Two environments were terminated and the notification names both.
C11_ReturnedWitness ==
    /\ TerminateRan
    /\ tePc = "returned"
    /\ Len(eb_envs.Environments) = 3
    /\ Len(teCalls) = 2
    /\ teMail = <<(<<teCalls[1].EnvironmentName, teCalls[2].EnvironmentName>>)>>

\* One environment was terminated, the next call raised, nothing was sent.
C11_RaisedAfterTermination ==
    /\ TerminateRan
    /\ tePc = "raised"
    /\ Len(teCalls) = 2
    /\ terminated_environments # <<>>
    /\ teMail = <<>>

\* ------------------------------------------ get_environment_variables

\* A call of a Handler without invalidate, with redis answering, whose key
\* was set by an earlier call and had not expired when the call looked.
CachedCallReturned ==
    /\ callPc = "returned"
    /\ ~handler.invalidate
    /\ handler.bool = "True"
    /\ hit.alive

\* C12: a call without invalidate, with redis reachable, for a pair whose
\* key an earlier call has set and which has not expired, returns the value
\* that call returned and makes no describe_configuration_settings call,
\* whatever the value, the empty one included; a call with invalidate never
\* reads the cache and always calls the API.
C12_ReadThroughCache ==
    /\ CachedCallReturned => ~apiCalled /\ env_vars = hit.given
    /\ callPc = "returned" /\ handler.invalidate => ~cacheRead /\ apiCalled

\* What holds of C12: the cached value is served without an API call when it
\* has at least one variable, a cached empty value is always fetched again,
\* and invalidate skips the cache and calls the API.
C12_NonEmptyServedFromCache ==
    /\ CachedCallReturned /\ hit.given # EmptyDict =>
           ~apiCalled /\ env_vars = hit.given
    /\ CachedCallReturned /\ hit.given = EmptyDict => apiCalled
    /\ callPc = "returned" /\ handler.invalidate => ~cacheRead /\ apiCalled

\* A value with two variables came from the cache after the first clock step.
C12_ServedWitness ==
    /\ CachedCallReturned
    /\ now = TickSeconds
    /\ Len(env_vars) = 2
    /\ ~apiCalled

\* The key held the empty value, alive, and the API was called again.
C12_EmptyFetchedAgain ==
    /\ CachedCallReturned
    /\ hit.given = EmptyDict
    /\ apiCalled
    /\ env_vars # EmptyDict

\* A call with invalidate, while the key was alive, called the API.
C12_InvalidateWitness ==
    /\ callPc = "returned"
    /\ handler.invalidate
    /\ RedisGet(callKey) # <<>>
    /\ apiCalled
    /\ ~cacheRead

=============================================================================
